---- MODULE Spec2Model ----
(***************************************************************************)
(* TDI: a modal, keyboard-driven todo-list manager (src/src/app.rs).       *)
(* The model follows the run loop of App::run: one key event is resolved   *)
(* to an Action by read_next_action and applied to the App by update.      *)
(* Indices are 0-based as in the source; sequences are indexed with +1.    *)
(***************************************************************************)
EXTENDS Integers, Sequences, FiniteSets, TLC

VARIABLES
    todo_lists,        \* App.todo_lists: Vec<TodoList>
    selection,         \* App.selection: Selection {todo_list, todo, char}
    mode,              \* App.mode
    snapshots,         \* App.snapshots: VecDeque<State>
    needs_saving,      \* App.needs_saving
    current_snapshot,  \* App.current_snapshot
    quit,              \* App.quit
    halt,              \* "none" while run() loops, "panic" after a Rust panic, "error" after run() returned Err
    action,            \* the Action last returned by read_next_action ("Init" before the first)
    loaded,            \* the todo_lists App::init read from the database file
    prev,              \* the App as it was before the last action (history variable)
    base_lists,        \* todo_lists at the last Normal-mode state before the last action (history variable)
    steps,             \* number of actions applied so far (bounded by MaxSteps)
    elements,          \* SelectionList.elements (src/src/selection.rs)
    selected_index,    \* SelectionList.selected_index: Option<usize>
    overflow_checks,   \* the build panics on integer overflow (debug) or wraps (release)
    call               \* the SelectionList method called last, its argument, the list before it

app_vars == <<todo_lists, selection, mode, snapshots, needs_saving,
              current_snapshot, quit, halt, action, loaded, prev, base_lists, steps>>

list_vars == <<elements, selected_index, overflow_checks, call>>

vars == <<app_vars, list_vars>>

----------------------------------------------------------------------------
(* Bounds of the model *)

MaxSteps == 3          \* actions applied in one run
MaxLists == 2          \* lists in the loaded database
MaxInitTodos == 2      \* todos per list in the loaded database
MaxNameLen == 2        \* bytes in a todo name
max_snapshots == 2     \* App.max_snapshots (100 in App::init), scaled down
MaxElements == 3       \* elements of a SelectionList
UsizeBits == 4         \* width of usize and isize (64 on the usual targets), scaled down

(* Program constants *)

APP_VERSION == "0.1"
BACKLOG_LIST_IDX == 1
MOVE_HALF_AMOUNT == 5

----------------------------------------------------------------------------
(* Small helpers standing for Rust library operations *)

Min(a, b) == IF a < b THEN a ELSE b

None == <<>>
Some(x) == <<x>>

\* Vec::remove(i), 0-based, i in range
VecRemove(s, i) == SubSeq(s, 1, i) \o SubSeq(s, i + 2, Len(s))

\* Vec::insert(i, e), 0-based, i <= len
VecInsert(s, i, e) == SubSeq(s, 1, i) \o <<e>> \o SubSeq(s, i + 1, Len(s))

\* slice::swap(i, j), 0-based
VecSwap(s, i, j) == [k \in 1..Len(s) |-> IF k = i + 1 THEN s[j + 1]
                                         ELSE IF k = j + 1 THEN s[i + 1] ELSE s[k]]

\* A String is its sequence of UTF-8 bytes.  An ASCII char is one byte; the
\* two-byte char "eacute" is the bytes "e_lead", "e_cont".
char_bytes(c) == IF c = "eacute" THEN <<"e_lead", "e_cont">> ELSE <<c>>

is_char_boundary(name, i) ==
    \/ i = 0
    \/ i = Len(name)
    \/ i < Len(name) /\ name[i + 1] # "e_cont"

\* byte length of the char starting at byte i
char_len_at(name, i) == IF name[i + 1] = "e_lead" THEN 2 ELSE 1

\* String::insert(idx, ch) panics unless idx is a char boundary
String_insert_panics(name, idx) == ~ is_char_boundary(name, idx)
String_insert(name, idx, c) ==
    SubSeq(name, 1, idx) \o char_bytes(c) \o SubSeq(name, idx + 1, Len(name))

\* String::remove(idx) panics at the end of the string or off a char boundary
String_remove_panics(name, idx) == idx >= Len(name) \/ ~ is_char_boundary(name, idx)
String_remove(name, idx) ==
    SubSeq(name, 1, idx) \o SubSeq(name, idx + char_len_at(name, idx) + 1, Len(name))

\* str::trim().is_empty(): nothing but whitespace
trim_is_empty(name) == \A k \in 1..Len(name) : name[k] = " "

----------------------------------------------------------------------------
(* Todo, TodoList, State *)

Todo_new(name) == [name |-> name, marked |-> FALSE]

\* State::create: a copy of the lists, version from Default
State_create(app) == [version |-> APP_VERSION, todo_lists |-> app.todo_lists]

\* a restore that also puts the selection back to the first todo of the
\* first list
State_restore_resets_selection(state, app) ==
    [app EXCEPT !.todo_lists = state.todo_lists,
                !.selection = [todo_list |-> 0, todo |-> 0, char |-> 0]]

\* State::restore
State_restore(state, app) == [app EXCEPT !.todo_lists = state.todo_lists]

\* State::default
State_default ==
    [version |-> APP_VERSION,
     todo_lists |-> << [name |-> "Todo", todos |-> <<>>],
                       [name |-> "Backlog", todos |-> <<>>] >>]

----------------------------------------------------------------------------
(* The App as one value, so that each method is an operator App -> App *)

Self == [todo_lists |-> todo_lists, selection |-> selection, mode |-> mode,
         snapshots |-> snapshots, needs_saving |-> needs_saving,
         current_snapshot |-> current_snapshot, quit |-> quit, halt |-> halt]

Panic(app) == [app EXCEPT !.halt = "panic"]

todos_of(app, li) == app.todo_lists[li + 1].todos
set_todos(app, li, ts) == [app EXCEPT !.todo_lists[li + 1].todos = ts]

----------------------------------------------------------------------------
(* History *)

\* create_snapshot without the loop that removes the snapshots at or after
\* current_snapshot
create_snapshot_keeps_redo(app) ==
    LET pushed == Append(app.snapshots, State_create(app))
        cur    == app.current_snapshot + 1
    IN  IF Len(pushed) > max_snapshots
        THEN [app EXCEPT !.snapshots = Tail(pushed), !.current_snapshot = cur - 1]
        ELSE [app EXCEPT !.snapshots = pushed, !.current_snapshot = cur]

\* create_snapshot that drops the oldest snapshot of a full history but
\* leaves current_snapshot at its value after the push
create_snapshot_keeps_cursor(app) ==
    LET kept   == SubSeq(app.snapshots, 1, Min(app.current_snapshot, Len(app.snapshots)))
        pushed == Append(kept, State_create(app))
        cur    == app.current_snapshot + 1
    IN  IF Len(pushed) > max_snapshots
        THEN [app EXCEPT !.snapshots = Tail(pushed), !.current_snapshot = cur]
        ELSE [app EXCEPT !.snapshots = pushed, !.current_snapshot = cur]

\* App::create_snapshot
create_snapshot(app) ==
    LET kept   == SubSeq(app.snapshots, 1, Min(app.current_snapshot, Len(app.snapshots)))
        pushed == Append(kept, State_create(app))
        cur    == app.current_snapshot + 1
    IN  IF Len(pushed) > max_snapshots
        THEN [app EXCEPT !.snapshots = Tail(pushed), !.current_snapshot = cur - 1]
        ELSE [app EXCEPT !.snapshots = pushed, !.current_snapshot = cur]

\* App::undo
undo(app) ==
    IF app.current_snapshot = 0 THEN app
    ELSE LET cur == app.current_snapshot - 1
             a1  == [app EXCEPT !.current_snapshot = cur]
         IN  IF cur >= Len(app.snapshots) THEN Panic(a1)
             ELSE LET live == State_create(a1)
                      slot == a1.snapshots[cur + 1]
                      a2   == [a1 EXCEPT !.snapshots[cur + 1] = live]
                  IN  [State_restore(slot, a2) EXCEPT !.needs_saving = TRUE]

\* App::redo
redo(app) ==
    IF app.current_snapshot = Len(app.snapshots) THEN app
    ELSE LET cur == app.current_snapshot
         IN  IF cur >= Len(app.snapshots) THEN Panic(app)
             ELSE LET live == State_create(app)
                      slot == app.snapshots[cur + 1]
                      a2   == [app EXCEPT !.snapshots[cur + 1] = live]
                  IN  [State_restore(slot, a2) EXCEPT !.current_snapshot = cur + 1,
                                                       !.needs_saving = TRUE]

----------------------------------------------------------------------------
(* Selection *)

\* App::selected_todo_list
selected_todo_list(app) ==
    IF Len(app.todo_lists) = 0 THEN None ELSE Some(app.selection.todo_list)

\* select_todo_list without the return on an index past the last list
select_todo_list_unchecked(app, todo_list_idx) ==
    [app EXCEPT !.selection.todo_list = todo_list_idx]

\* App::select_todo_list
select_todo_list(app, todo_list_idx) ==
    IF todo_list_idx >= Len(app.todo_lists) THEN app
    ELSE [app EXCEPT !.selection.todo_list = todo_list_idx]

\* App::select_todo
select_todo(app, todo_list_idx, todo_idx) ==
    IF todo_list_idx >= Len(app.todo_lists) THEN app
    ELSE LET a1 == [app EXCEPT !.selection.todo_list = todo_list_idx]
         IN  IF todo_idx >= Len(todos_of(a1, todo_list_idx)) THEN a1
             ELSE [a1 EXCEPT !.selection.todo = todo_idx]

\* App::selected_todo
selected_todo(app) ==
    IF Len(app.todo_lists) = 0 THEN None
    ELSE LET li == app.selection.todo_list
             n  == Len(todos_of(app, li))
         IN  IF n = 0 THEN None
             ELSE Some(<<li, Min(app.selection.todo, n - 1)>>)

----------------------------------------------------------------------------
(* Mode *)

\* set_mode_insert without the return on an empty active list
set_mode_insert_unchecked(app) ==
    IF app.selection.todo_list >= Len(app.todo_lists) THEN Panic(app)
    ELSE [app EXCEPT !.selection.char = 0, !.mode = "Insert"]

\* App::set_mode_insert
set_mode_insert(app) ==
    IF app.selection.todo_list >= Len(app.todo_lists) THEN Panic(app)
    ELSE IF Len(todos_of(app, app.selection.todo_list)) = 0 THEN app
    ELSE [app EXCEPT !.selection.char = 0, !.mode = "Insert"]

\* App::set_mode_normal
set_mode_normal(app) ==
    LET a1  == [app EXCEPT !.mode = "Normal"]
        sel == selected_todo(a1)
    IN  IF sel = None THEN a1
        ELSE LET li == sel[1][1]
                 ti == sel[1][2]
                 a2 == IF trim_is_empty(todos_of(a1, li)[ti + 1].name)
                       THEN [set_todos(a1, li, VecRemove(todos_of(a1, li), ti))
                               EXCEPT !.snapshots =
                                   IF Len(a1.snapshots) = 0 THEN a1.snapshots
                                   ELSE SubSeq(a1.snapshots, 1, Len(a1.snapshots) - 1)]
                       ELSE a1
             IN  IF a2.selection.todo > 0
                 THEN [a2 EXCEPT !.selection.todo = a2.selection.todo - 1]
                 ELSE a2

\* App::set_mode
set_mode(app, next_mode) ==
    LET a1 == IF next_mode = "Insert" THEN create_snapshot(app) ELSE app
    IN  IF next_mode = "Insert" THEN set_mode_insert(a1) ELSE set_mode_normal(a1)

----------------------------------------------------------------------------
(* Navigation *)

\* App::move_left
move_left(app) ==
    LET sl == selected_todo_list(app)
    IN  IF sl = None THEN app
        ELSE IF sl[1] = 0 THEN app
        ELSE select_todo_list(app, sl[1] - 1)

\* App::move_right
move_right(app) ==
    LET sl == selected_todo_list(app)
    IN  IF sl = None THEN app ELSE select_todo_list(app, sl[1] + 1)

\* App::move_up
move_up(app) ==
    LET sel == selected_todo(app)
    IN  IF sel = None THEN app
        ELSE IF sel[1][2] = 0 THEN app
        ELSE select_todo(app, sel[1][1], sel[1][2] - 1)

\* move_down that takes a snapshot before it moves the selection
move_down_snapshots(app) ==
    LET sel == selected_todo(app)
    IN  IF sel = None THEN app
        ELSE select_todo(create_snapshot(app), sel[1][1], sel[1][2] + 1)

\* App::move_down
move_down(app) ==
    LET sel == selected_todo(app)
    IN  IF sel = None THEN app ELSE select_todo(app, sel[1][1], sel[1][2] + 1)

\* App::move_up_half
move_up_half(app) ==
    LET sel == selected_todo(app)
    IN  IF sel = None THEN app
        ELSE LET next_todo_idx == IF sel[1][2] > MOVE_HALF_AMOUNT
                                  THEN sel[1][2] - MOVE_HALF_AMOUNT ELSE 0
             IN  select_todo(app, sel[1][1], next_todo_idx)

\* App::move_down_half
move_down_half(app) ==
    LET sel == selected_todo(app)
    IN  IF sel = None THEN app
        ELSE LET len == Len(todos_of(app, sel[1][1]))
             IN  IF len = 0 THEN app
                 ELSE select_todo(app, sel[1][1],
                                  Min(sel[1][2] + MOVE_HALF_AMOUNT, len - 1))

\* App::move_top
move_top(app) ==
    LET sl == selected_todo_list(app)
    IN  IF sl = None THEN app ELSE select_todo(app, sl[1], 0)

\* App::move_bottom
move_bottom(app) ==
    LET sl == selected_todo_list(app)
    IN  IF sl = None THEN app
        ELSE IF Len(todos_of(app, sl[1])) = 0 THEN app
        ELSE select_todo(app, sl[1], Len(todos_of(app, sl[1])) - 1)

----------------------------------------------------------------------------
(* Content mutations *)

\* App::add_todo
add_todo(app, below) ==
    IF Len(app.todo_lists) = 0 THEN app
    ELSE LET a1 == create_snapshot(app)
             a2 == set_mode_insert(a1)
             li == a2.selection.todo_list
             todos == todos_of(a2, li)
             todo_idx == IF below THEN Min(a2.selection.todo + 1, Len(todos))
                         ELSE Min(a2.selection.todo, Len(todos))
         IN  [set_todos(a2, li, VecInsert(todos, todo_idx, Todo_new(<<>>)))
                EXCEPT !.selection.todo = todo_idx, !.needs_saving = TRUE]

\* App::toggle_mark
toggle_mark(app) ==
    LET sel == selected_todo(app)
    IN  IF sel = None THEN app
        ELSE LET a1 == create_snapshot(app)
                 li == sel[1][1]
                 ti == sel[1][2]
             IN  [a1 EXCEPT !.todo_lists[li + 1].todos[ti + 1].marked = ~ @,
                            !.needs_saving = TRUE]

\* App::delete_todo
delete_todo(app) ==
    LET sel == selected_todo(app)
    IN  IF sel = None THEN app
        ELSE LET li == sel[1][1]
                 ti == sel[1][2]
                 todo == todos_of(app, li)[ti + 1]
             IN  IF ~ todo.marked
                 THEN LET a1 == create_snapshot(app)
                      IN  [set_todos(a1, li, VecRemove(todos_of(a1, li), ti))
                             EXCEPT !.needs_saving = TRUE]
                 ELSE IF li # BACKLOG_LIST_IDX
                 THEN LET a1 == create_snapshot(app)
                          a2 == set_todos(a1, li, VecRemove(todos_of(a1, li), ti))
                      IN  IF BACKLOG_LIST_IDX >= Len(a2.todo_lists) THEN Panic(a2)
                          ELSE [set_todos(a2, BACKLOG_LIST_IDX,
                                          Append(todos_of(a2, BACKLOG_LIST_IDX), todo))
                                  EXCEPT !.needs_saving = TRUE]
                 ELSE app

\* App::move_todo_left
move_todo_left(app) ==
    LET sel == selected_todo(app)
    IN  IF sel = None THEN app
        ELSE IF sel[1][1] = 0 THEN app
        ELSE LET li == sel[1][1]
                 ti == sel[1][2]
                 a1 == create_snapshot(app)
                 todo == todos_of(a1, li)[ti + 1]
                 a2 == set_todos(a1, li, VecRemove(todos_of(a1, li), ti))
                 next == todos_of(a2, li - 1)
                 next_todo_idx == Min(a2.selection.todo, Len(next))
             IN  [set_todos(a2, li - 1, VecInsert(next, next_todo_idx, todo))
                    EXCEPT !.selection.todo_list = @ - 1, !.needs_saving = TRUE]

\* App::move_todo_right
move_todo_right(app) ==
    LET sel == selected_todo(app)
    IN  IF sel = None THEN app
        ELSE IF sel[1][1] = Len(app.todo_lists) - 1 THEN app
        ELSE LET li == sel[1][1]
                 ti == sel[1][2]
                 a1 == create_snapshot(app)
                 todo == todos_of(a1, li)[ti + 1]
                 a2 == set_todos(a1, li, VecRemove(todos_of(a1, li), ti))
                 next == todos_of(a2, li + 1)
                 next_todo_idx == Min(a2.selection.todo, Len(next))
             IN  [set_todos(a2, li + 1, VecInsert(next, next_todo_idx, todo))
                    EXCEPT !.selection.todo_list = @ + 1, !.needs_saving = TRUE]

\* move_todo_up that swaps the todos but leaves the selection where it was
move_todo_up_leaves_selection(app) ==
    LET sel == selected_todo(app)
    IN  IF sel = None THEN app
        ELSE IF sel[1][2] = 0 THEN app
        ELSE LET a1 == create_snapshot(app)
                 a2 == set_todos(a1, sel[1][1],
                                 VecSwap(todos_of(a1, sel[1][1]), sel[1][2], sel[1][2] - 1))
             IN  [a2 EXCEPT !.needs_saving = TRUE]

\* App::move_todo_up
move_todo_up(app) ==
    LET sel == selected_todo(app)
    IN  IF sel = None THEN app
        ELSE IF sel[1][2] = 0 THEN app
        ELSE LET li == sel[1][1]
                 ti == sel[1][2]
                 a1 == create_snapshot(app)
                 a2 == set_todos(a1, li, VecSwap(todos_of(a1, li), ti, ti - 1))
             IN  [select_todo(a2, li, ti - 1) EXCEPT !.needs_saving = TRUE]

\* App::move_todo_down
move_todo_down(app) ==
    LET sel == selected_todo(app)
    IN  IF sel = None THEN app
        ELSE IF sel[1][2] = Len(todos_of(app, sel[1][1])) - 1 THEN app
        ELSE LET li == sel[1][1]
                 ti == sel[1][2]
                 a1 == create_snapshot(app)
                 a2 == set_todos(a1, li, VecSwap(todos_of(a1, li), ti, ti + 1))
             IN  [select_todo(a2, li, ti + 1) EXCEPT !.needs_saving = TRUE]

----------------------------------------------------------------------------
(* Text editing.  A KeyCode is [t, c]: t = "Char" with its char c, or a   *)
(* named key with c = "".                                                  *)

Char(c) == [t |-> "Char", c |-> c]
Key(k)  == [t |-> k, c |-> ""]

\* App::input
input(app, code) ==
    IF Len(app.todo_lists) = 0 THEN app
    ELSE LET li == app.selection.todo_list
             todos == todos_of(app, li)
         IN  IF Len(todos) = 0 THEN app
             ELSE LET todo_idx == Min(app.selection.todo, Len(todos) - 1)
                      name == todos[todo_idx + 1].name
                      char_index == app.selection.char
                      with(n) == [app EXCEPT !.todo_lists[li + 1].todos[todo_idx + 1].name = n]
                  IN  IF code.t = "Char"
                      THEN IF String_insert_panics(name, char_index) THEN Panic(app)
                           ELSE [with(String_insert(name, char_index, code.c))
                                   EXCEPT !.selection.char = @ + 1, !.needs_saving = TRUE]
                      ELSE IF code.t = "Backspace"
                      THEN IF app.selection.char > 0
                           THEN IF String_remove_panics(name, char_index - 1) THEN Panic(app)
                                ELSE [with(String_remove(name, char_index - 1))
                                        EXCEPT !.selection.char = @ - 1, !.needs_saving = TRUE]
                           ELSE [app EXCEPT !.needs_saving = TRUE]
                      ELSE IF code.t = "Delete"
                      THEN IF app.selection.char < Len(name)
                           THEN IF String_remove_panics(name, char_index) THEN Panic(app)
                                ELSE [with(String_remove(name, char_index))
                                        EXCEPT !.needs_saving = TRUE]
                           ELSE [app EXCEPT !.needs_saving = TRUE]
                      ELSE [app EXCEPT !.needs_saving = TRUE]

\* move_cursor_right without the return at the end of the name
move_cursor_right_past_end(app) ==
    IF app.selection.todo_list >= Len(app.todo_lists) THEN app
    ELSE LET todos == todos_of(app, app.selection.todo_list)
         IN  IF app.selection.todo >= Len(todos) THEN Panic(app)
             ELSE [app EXCEPT !.selection.char = @ + 1]

\* App::move_cursor_right
move_cursor_right(app) ==
    IF app.selection.todo_list >= Len(app.todo_lists) THEN app
    ELSE LET todos == todos_of(app, app.selection.todo_list)
         IN  IF app.selection.todo >= Len(todos) THEN Panic(app)
             ELSE IF app.selection.char >= Len(todos[app.selection.todo + 1].name) THEN app
             ELSE [app EXCEPT !.selection.char = @ + 1]

\* App::move_cursor_left
move_cursor_left(app) ==
    IF app.selection.char = 0 THEN app ELSE [app EXCEPT !.selection.char = @ - 1]

\* App::move_cursor_start
move_cursor_start(app) == [app EXCEPT !.selection.char = 0]

\* App::move_cursor_end
move_cursor_end(app) ==
    IF app.selection.todo_list >= Len(app.todo_lists) THEN app
    ELSE LET todos == todos_of(app, app.selection.todo_list)
         IN  IF app.selection.todo >= Len(todos) THEN Panic(app)
             ELSE [app EXCEPT !.selection.char = Len(todos[app.selection.todo + 1].name)]

----------------------------------------------------------------------------
(* Persistence.  io_ok is whether create_dir_all, to_string and write      *)
(* all succeed.                                                            *)

\* save that clears needs_saving before it writes the file
save_clears_flag_first(app, io_ok) ==
    IF ~ app.needs_saving THEN app
    ELSE IF ~ io_ok THEN [app EXCEPT !.needs_saving = FALSE, !.halt = "error"]
    ELSE [app EXCEPT !.needs_saving = FALSE]

\* App::save
save(app, io_ok) ==
    IF ~ app.needs_saving THEN app
    ELSE IF ~ io_ok THEN [app EXCEPT !.halt = "error"]
    ELSE [app EXCEPT !.needs_saving = FALSE]

\* App::quit
quit_app(app, io_ok) ==
    LET a1 == save(app, io_ok)
    IN  IF a1.halt = "error" THEN a1 ELSE [a1 EXCEPT !.quit = TRUE]

----------------------------------------------------------------------------
(* Key bindings.  An Action is [t, mode, code]: mode is used by SetMode,   *)
(* code by Input.  A modifier set is a subset of {"SHIFT", "CONTROL"}.     *)

Action(t)           == [t |-> t, mode |-> "", code |-> Key("")]
Action_SetMode(m)   == [t |-> "SetMode", mode |-> m, code |-> Key("")]
Action_Input(code)  == [t |-> "Input", mode |-> "", code |-> code]

Uppercase == {"A", "B", "C", "D", "E", "F", "G", "H", "I", "J", "K", "L", "M",
              "N", "O", "P", "Q", "R", "S", "T", "U", "V", "W", "X", "Y", "Z"}

\* KeyPress::new: an uppercase ASCII letter gets SHIFT added
KeyPress_new(m, code, modifiers) ==
    [mode |-> m, code |-> code,
     modifiers |-> IF code.t = "Char" /\ code.c \in Uppercase
                   THEN modifiers \cup {"SHIFT"} ELSE modifiers]

\* KeyPress::char
KeyPress_char(m, c) == KeyPress_new(m, Char(c), {})

\* KeyPress::code
KeyPress_code(m, k) == KeyPress_new(m, Key(k), {})

\* default_key_mappings: the inserts in source order
default_key_mappings ==
    << <<KeyPress_char("Normal", "q"), Action("Quit")>>,
       <<KeyPress_char("Normal", "o"), Action("AddTodoBelow")>>,
       <<KeyPress_char("Normal", "O"), Action("AddTodoAbove")>>,
       <<KeyPress_char("Normal", "m"), Action("ToggleMark")>>,
       <<KeyPress_char("Normal", "d"), Action("DeleteTodo")>>,
       <<KeyPress_char("Normal", "H"), Action("MoveTodoLeft")>>,
       <<KeyPress_char("Normal", "J"), Action("MoveTodoDown")>>,
       <<KeyPress_char("Normal", "K"), Action("MoveTodoUp")>>,
       <<KeyPress_char("Normal", "L"), Action("MoveTodoRight")>>,
       <<KeyPress_new("Normal", Key("Left"), {"SHIFT"}), Action("MoveTodoLeft")>>,
       <<KeyPress_new("Normal", Key("Down"), {"SHIFT"}), Action("MoveTodoDown")>>,
       <<KeyPress_new("Normal", Key("Up"), {"SHIFT"}), Action("MoveTodoUp")>>,
       <<KeyPress_new("Normal", Key("Right"), {"SHIFT"}), Action("MoveTodoRight")>>,
       <<KeyPress_char("Normal", "K"), Action("MoveTodoUp")>>,
       <<KeyPress_char("Normal", "L"), Action("MoveTodoRight")>>,
       <<KeyPress_char("Normal", "h"), Action("MoveLeft")>>,
       <<KeyPress_char("Normal", "j"), Action("MoveDown")>>,
       <<KeyPress_char("Normal", "k"), Action("MoveUp")>>,
       <<KeyPress_new("Normal", Char("d"), {"CONTROL"}), Action("MoveDownHalf")>>,
       <<KeyPress_new("Normal", Char("u"), {"CONTROL"}), Action("MoveUpHalf")>>,
       <<KeyPress_char("Normal", "k"), Action("MoveUp")>>,
       <<KeyPress_char("Normal", "l"), Action("MoveRight")>>,
       <<KeyPress_char("Normal", "g"), Action("MoveTop")>>,
       <<KeyPress_char("Normal", "G"), Action("MoveBottom")>>,
       <<KeyPress_code("Normal", "Home"), Action("MoveTop")>>,
       <<KeyPress_code("Normal", "End"), Action("MoveBottom")>>,
       <<KeyPress_code("Normal", "Left"), Action("MoveLeft")>>,
       <<KeyPress_code("Normal", "Down"), Action("MoveDown")>>,
       <<KeyPress_code("Normal", "Up"), Action("MoveUp")>>,
       <<KeyPress_code("Normal", "Right"), Action("MoveRight")>>,
       <<KeyPress_char("Normal", "u"), Action("Undo")>>,
       <<KeyPress_char("Normal", "r"), Action("Redo")>>,
       <<KeyPress_char("Normal", "i"), Action_SetMode("Insert")>>,
       <<KeyPress_code("Insert", "Esc"), Action_SetMode("Normal")>>,
       <<KeyPress_code("Insert", "Right"), Action("MoveCursorRight")>>,
       <<KeyPress_code("Insert", "Left"), Action("MoveCursorLeft")>>,
       <<KeyPress_code("Insert", "Home"), Action("MoveCursorStart")>>,
       <<KeyPress_code("Insert", "End"), Action("MoveCursorEnd")>> >>

\* HashMap::get on App.key_mappings: the last insert of a key wins
key_mappings_get(key_press) ==
    LET hits == {i \in 1..Len(default_key_mappings) :
                     default_key_mappings[i][1] = key_press}
    IN  IF hits = {} THEN None
        ELSE Some(default_key_mappings[CHOOSE i \in hits : \A j \in hits : j <= i][2])

\* Terminal events: a key press with its modifiers, or a resize
KeyEvent(code, modifiers) == [kind |-> "Key", code |-> code, modifiers |-> modifiers]
ResizeEvent == [kind |-> "Resize", code |-> Key(""), modifiers |-> {}]
Modifiers == SUBSET {"SHIFT", "CONTROL"}

\* App::read_next_action on one event: Some(action), or None when the
\* event is dropped and the loop reads another
read_next_action(m, ev) ==
    IF ev.kind = "Key"
    THEN LET key_press == [mode |-> m, code |-> ev.code, modifiers |-> ev.modifiers]
             hit == key_mappings_get(key_press)
         IN  IF hit # None THEN hit
             ELSE IF m = "Insert" THEN Some(Action_Input(ev.code))
             ELSE None
    ELSE IF ev.kind = "Resize" THEN Some(Action("Nop"))
    ELSE None

\* Some event of evs makes read_next_action return act in the current mode
Resolves(evs, act) ==
    IF \E ev \in evs : read_next_action(mode, ev) = Some(act) THEN TRUE ELSE FALSE

\* The key presses of the model: for each Action the keys bound to it in
\* default_key_mappings, and the keys typed in Insert mode
Press(c) == KeyEvent(Char(c), {})
PressKey(k) == KeyEvent(Key(k), {})
Shift(code) == KeyEvent(code, {"SHIFT"})
Ctrl(code) == KeyEvent(code, {"CONTROL"})

----------------------------------------------------------------------------
(* SelectionList (src/src/selection.rs): a Vec with an optional selected   *)
(* index.  usize and isize are UsizeBits wide; an overflowing + or - panics *)
(* in a build with overflow checks and wraps in one without.               *)

USIZE_MOD == 2 ^ UsizeBits
ISIZE_MIN == 0 - 2 ^ (UsizeBits - 1)
ISIZE_MAX == 2 ^ (UsizeBits - 1) - 1
usize == 0..(USIZE_MOD - 1)

\* `n as isize` for a usize n: the same bits read as two's complement
as_isize(n) == IF n > ISIZE_MAX THEN n - USIZE_MOD ELSE n

\* `n as usize` for an isize n
as_usize(n) == IF n < 0 THEN n + USIZE_MOD ELSE n

\* a usize result that left the range, and what a wrapping build keeps of it
usize_overflows(n) == n < 0 \/ n >= USIZE_MOD
usize_wrap(n) == n % USIZE_MOD

\* the same for isize
isize_overflows(n) == n < ISIZE_MIN \/ n > ISIZE_MAX
isize_wrap(n) == as_isize(n % USIZE_MOD)

\* Rust's % on isize: the remainder has the sign of the dividend
isize_rem(a, b) == IF a >= 0 THEN a % b ELSE 0 - ((0 - a) % b)

\* the SelectionList as one value; panic is set when the call panicked
SelectionList_default == [elements |-> <<>>, selected_index |-> None, panic |-> FALSE]

List == [elements |-> elements, selected_index |-> selected_index, panic |-> FALSE]

ListPanic(sl) == [sl EXCEPT !.panic = TRUE]

\* SelectionList::push
push(sl, element) ==
    LET pushed == Append(sl.elements, element)
    IN  IF Len(pushed) = 1
        THEN [sl EXCEPT !.elements = pushed, !.selected_index = Some(0)]
        ELSE [sl EXCEPT !.elements = pushed]

\* SelectionList::insert
insert(sl, index, element) ==
    LET idx == Min(index, Len(sl.elements))
        inserted == VecInsert(sl.elements, idx, element)
    IN  IF Len(inserted) = 1
        THEN [sl EXCEPT !.elements = inserted, !.selected_index = Some(0)]
        ELSE [sl EXCEPT !.elements = inserted]

\* SelectionList::remove without the else branch that pulls the selected
\* index back into the shortened list
remove_keeps_index(sl, index) ==
    IF index >= Len(sl.elements) THEN ListPanic(sl)
    ELSE LET removed == VecRemove(sl.elements, index)
         IN  IF Len(removed) = 0
             THEN [sl EXCEPT !.elements = removed, !.selected_index = None]
             ELSE [sl EXCEPT !.elements = removed]

\* SelectionList::remove
remove(sl, index) ==
    IF index >= Len(sl.elements) THEN ListPanic(sl)
    ELSE LET removed == VecRemove(sl.elements, index)
             a1 == [sl EXCEPT !.elements = removed]
         IN  IF Len(removed) = 0 THEN [a1 EXCEPT !.selected_index = None]
             ELSE IF sl.selected_index = None THEN ListPanic(a1)
             ELSE LET selected == sl.selected_index[1]
                      last_index == Len(removed) - 1
                  IN  IF selected > last_index
                      THEN [a1 EXCEPT !.selected_index = Some(last_index)]
                      ELSE a1

\* SelectionList::select_first
select_first(sl) ==
    IF Len(sl.elements) = 0 THEN sl ELSE [sl EXCEPT !.selected_index = Some(0)]

\* SelectionList::select_last
select_last(sl) ==
    IF Len(sl.elements) = 0 THEN sl
    ELSE [sl EXCEPT !.selected_index = Some(Len(sl.elements) - 1)]

\* SelectionList::select
select(sl, index) ==
    IF Len(sl.elements) = 0 THEN sl
    ELSE [sl EXCEPT !.selected_index = Some(Min(index, Len(sl.elements) - 1))]

\* SelectionList::select_forwards
select_forwards(sl, amount, checks) ==
    IF sl.selected_index = None THEN sl
    ELSE LET sum == sl.selected_index[1] + amount
         IN  IF usize_overflows(sum) /\ checks THEN ListPanic(sl)
             ELSE IF Len(sl.elements) = 0 THEN ListPanic(sl)
             ELSE [sl EXCEPT !.selected_index =
                                 Some(Min(usize_wrap(sum), Len(sl.elements) - 1))]

\* SelectionList::select_forwards_wrapping
select_forwards_wrapping(sl, amount, checks) ==
    IF sl.selected_index = None THEN sl
    ELSE LET sum == sl.selected_index[1] + amount
         IN  IF usize_overflows(sum) /\ checks THEN ListPanic(sl)
             ELSE IF Len(sl.elements) = 0 THEN ListPanic(sl)
             ELSE [sl EXCEPT !.selected_index = Some(usize_wrap(sum) % Len(sl.elements))]

\* SelectionList::select_backwards
select_backwards(sl, amount) ==
    IF sl.selected_index = None THEN sl
    ELSE IF amount > sl.selected_index[1] THEN [sl EXCEPT !.selected_index = Some(0)]
    ELSE [sl EXCEPT !.selected_index = Some(sl.selected_index[1] - amount)]

\* SelectionList::select_backwards_wrapping
select_backwards_wrapping(sl, amount, checks) ==
    IF sl.selected_index = None THEN sl
    ELSE LET len == as_isize(Len(sl.elements))
             diff == as_isize(sl.selected_index[1]) - as_isize(amount)
         IN  IF isize_overflows(diff) /\ checks THEN ListPanic(sl)
             ELSE IF len = 0 THEN ListPanic(sl)
             ELSE LET selected == isize_wrap(diff)
                      shifted == isize_rem(selected, len) + len
                  IN  IF isize_overflows(shifted) /\ checks THEN ListPanic(sl)
                      ELSE [sl EXCEPT !.selected_index =
                               Some(as_usize(isize_rem(isize_wrap(shifted), len)))]

\* The callers of a SelectionList: any method, any argument
Elements == {"x", "y"}

NoCall == [op |-> "default", arg |-> 0, before |-> SelectionList_default, panic |-> FALSE]

InitList ==
    /\ todo_lists = State_default.todo_lists
    /\ selection = [todo_list |-> 0, todo |-> 0, char |-> 0]
    /\ mode = "Normal"
    /\ snapshots = <<>>
    /\ needs_saving = FALSE
    /\ current_snapshot = 0
    /\ quit = FALSE
    /\ halt = "none"
    /\ action = Action("Init")
    /\ loaded = todo_lists
    /\ prev = Self
    /\ base_lists = todo_lists
    /\ steps = 0
    /\ elements = SelectionList_default.elements
    /\ selected_index = SelectionList_default.selected_index
    /\ overflow_checks \in BOOLEAN
    /\ call = NoCall

Called(op, arg, sl) ==
    /\ ~ call.panic
    /\ elements' = sl.elements
    /\ selected_index' = sl.selected_index
    /\ call' = [op |-> op, arg |-> arg, before |-> List, panic |-> sl.panic]
    /\ UNCHANGED overflow_checks
    /\ UNCHANGED app_vars

Push ==
    /\ Len(elements) < MaxElements
    /\ \E e \in Elements : Called("push", 0, push(List, e))
Insert ==
    /\ Len(elements) < MaxElements
    /\ \E index \in usize : \E e \in Elements : Called("insert", index, insert(List, index, e))
Remove ==
    \E index \in usize : Called("remove", index, remove(List, index))
SelectFirst ==
    Called("select_first", 0, select_first(List))
SelectLast ==
    Called("select_last", 0, select_last(List))
Select ==
    \E index \in usize : Called("select", index, select(List, index))
SelectForwards ==
    \E amount \in usize :
        Called("select_forwards", amount, select_forwards(List, amount, overflow_checks))
SelectForwardsWrapping ==
    \E amount \in usize :
        Called("select_forwards_wrapping", amount,
               select_forwards_wrapping(List, amount, overflow_checks))
SelectBackwards ==
    \E amount \in usize : Called("select_backwards", amount, select_backwards(List, amount))
SelectBackwardsWrapping ==
    \E amount \in usize :
        Called("select_backwards_wrapping", amount,
               select_backwards_wrapping(List, amount, overflow_checks))

NextList ==
    \/ Push \/ Insert \/ Remove
    \/ SelectFirst \/ SelectLast \/ Select
    \/ SelectForwards \/ SelectForwardsWrapping
    \/ SelectBackwards \/ SelectBackwardsWrapping

SpecList == InitList /\ [][NextList]_vars

----------------------------------------------------------------------------
(* The database file read by App::init *)

InitTodos == {[name |-> <<"a">>, marked |-> FALSE],
              [name |-> <<" ">>, marked |-> FALSE]}

ListName(i) == IF i = 1 THEN "Todo" ELSE IF i = 2 THEN "Backlog" ELSE "Finished"

SeqsUpTo(S, n) == UNION {[1..k -> S] : k \in 0..n}

TotalTodos(db) == LET RECURSIVE sum(_)
                      sum(i) == IF i = 0 THEN 0 ELSE Len(db[i].todos) + sum(i - 1)
                  IN  sum(Len(db))

\* databases of up to MaxLists lists holding up to MaxInitTodos todos in all
InitDbs ==
    UNION {{db \in {[i \in 1..n |-> [name |-> ListName(i), todos |-> ts[i]]] :
                        ts \in [1..n -> SeqsUpTo(InitTodos, MaxInitTodos)]} :
               TotalTodos(db) <= MaxInitTodos} : n \in 0..MaxLists}

\* App::init
Init ==
    /\ todo_lists \in InitDbs \cup {State_default.todo_lists}
    /\ selection = [todo_list |-> 0, todo |-> 0, char |-> 0]
    /\ mode = "Normal"
    /\ snapshots = <<>>
    /\ needs_saving = FALSE
    /\ current_snapshot = 0
    /\ quit = FALSE
    /\ halt = "none"
    /\ action = Action("Init")
    /\ loaded = todo_lists
    /\ prev = Self
    /\ base_lists = todo_lists
    /\ steps = 0
    /\ elements = SelectionList_default.elements
    /\ selected_index = SelectionList_default.selected_index
    /\ overflow_checks = FALSE
    /\ call = NoCall

----------------------------------------------------------------------------
(* App::run: one iteration reads an action and applies it with update *)

Running == halt = "none" /\ ~ quit /\ steps < MaxSteps

Update(act, app) ==
    /\ todo_lists' = app.todo_lists
    /\ selection' = app.selection
    /\ mode' = app.mode
    /\ snapshots' = app.snapshots
    /\ needs_saving' = app.needs_saving
    /\ current_snapshot' = app.current_snapshot
    /\ quit' = app.quit
    /\ halt' = app.halt
    /\ action' = act
    /\ loaded' = loaded
    /\ prev' = Self
    /\ base_lists' = IF mode = "Normal" THEN todo_lists ELSE base_lists
    /\ steps' = steps + 1
    /\ UNCHANGED list_vars

\* App::update
update(app, act, io_ok) ==
    CASE act.t = "Quit"            -> quit_app(app, io_ok)
      [] act.t = "DeleteTodo"      -> delete_todo(app)
      [] act.t = "MoveTodoLeft"    -> move_todo_left(app)
      [] act.t = "MoveTodoRight"   -> move_todo_right(app)
      [] act.t = "MoveTodoUp"      -> move_todo_up(app)
      [] act.t = "MoveTodoDown"    -> move_todo_down(app)
      [] act.t = "SetMode"         -> set_mode(app, act.mode)
      [] act.t = "MoveLeft"        -> move_left(app)
      [] act.t = "MoveRight"       -> move_right(app)
      [] act.t = "MoveUp"          -> move_up(app)
      [] act.t = "MoveDown"        -> move_down(app)
      [] act.t = "MoveUpHalf"      -> move_up_half(app)
      [] act.t = "MoveDownHalf"    -> move_down_half(app)
      [] act.t = "MoveTop"         -> move_top(app)
      [] act.t = "MoveBottom"      -> move_bottom(app)
      [] act.t = "AddTodoAbove"    -> add_todo(app, FALSE)
      [] act.t = "AddTodoBelow"    -> add_todo(app, TRUE)
      [] act.t = "ToggleMark"      -> toggle_mark(app)
      [] act.t = "Input"           -> input(app, act.code)
      [] act.t = "MoveCursorRight" -> move_cursor_right(app)
      [] act.t = "MoveCursorLeft"  -> move_cursor_left(app)
      [] act.t = "MoveCursorStart" -> move_cursor_start(app)
      [] act.t = "MoveCursorEnd"   -> move_cursor_end(app)
      [] act.t = "Undo"            -> undo(app)
      [] act.t = "Redo"            -> redo(app)
      [] act.t = "Nop"             -> app

\* One iteration of the loop of App::run on one event: a dropped event
\* leaves the App as it is
press(app, ev, io_ok) ==
    LET act == read_next_action(app.mode, ev)
    IN  IF act = None THEN app ELSE update(app, act[1], io_ok)

\* the name being edited stays within MaxNameLen bytes
NameFits(code) ==
    code.t = "Char" =>
        LET sel == selected_todo(Self)
        IN  sel # None =>
              Len(todos_of(Self, sel[1][1])[sel[1][2] + 1].name)
                  + Len(char_bytes(code.c)) <= MaxNameLen

TextChars == {"a", " ", "eacute"}
InputCodes == {Char(c) : c \in TextChars} \cup {Key("Backspace"), Key("Delete"), Key("Enter")}

Quit ==
    /\ Running /\ Resolves({Press("q")}, Action("Quit"))
    /\ \E io_ok \in BOOLEAN : Update(Action("Quit"), update(Self, Action("Quit"), io_ok))
DeleteTodo ==
    /\ Running /\ Resolves({Press("d")}, Action("DeleteTodo"))
    /\ Update(Action("DeleteTodo"), update(Self, Action("DeleteTodo"), TRUE))
MoveTodoLeft ==
    /\ Running /\ Resolves({Shift(Char("H")), Shift(Key("Left"))}, Action("MoveTodoLeft"))
    /\ Update(Action("MoveTodoLeft"), update(Self, Action("MoveTodoLeft"), TRUE))
MoveTodoRight ==
    /\ Running /\ Resolves({Shift(Char("L")), Shift(Key("Right"))}, Action("MoveTodoRight"))
    /\ Update(Action("MoveTodoRight"), update(Self, Action("MoveTodoRight"), TRUE))
MoveTodoUp ==
    /\ Running /\ Resolves({Shift(Char("K")), Shift(Key("Up"))}, Action("MoveTodoUp"))
    /\ Update(Action("MoveTodoUp"), update(Self, Action("MoveTodoUp"), TRUE))
MoveTodoDown ==
    /\ Running /\ Resolves({Shift(Char("J")), Shift(Key("Down"))}, Action("MoveTodoDown"))
    /\ Update(Action("MoveTodoDown"), update(Self, Action("MoveTodoDown"), TRUE))
SetModeInsert ==
    /\ Running /\ Resolves({Press("i")}, Action_SetMode("Insert"))
    /\ Update(Action_SetMode("Insert"), update(Self, Action_SetMode("Insert"), TRUE))
SetModeNormal ==
    /\ Running /\ Resolves({PressKey("Esc")}, Action_SetMode("Normal"))
    /\ Update(Action_SetMode("Normal"), update(Self, Action_SetMode("Normal"), TRUE))
MoveLeft ==
    /\ Running /\ Resolves({Press("h"), PressKey("Left")}, Action("MoveLeft"))
    /\ Update(Action("MoveLeft"), update(Self, Action("MoveLeft"), TRUE))
MoveRight ==
    /\ Running /\ Resolves({Press("l"), PressKey("Right")}, Action("MoveRight"))
    /\ Update(Action("MoveRight"), update(Self, Action("MoveRight"), TRUE))
MoveUp ==
    /\ Running /\ Resolves({Press("k"), PressKey("Up")}, Action("MoveUp"))
    /\ Update(Action("MoveUp"), update(Self, Action("MoveUp"), TRUE))
MoveDown ==
    /\ Running /\ Resolves({Press("j"), PressKey("Down")}, Action("MoveDown"))
    /\ Update(Action("MoveDown"), update(Self, Action("MoveDown"), TRUE))
MoveUpHalf ==
    /\ Running /\ Resolves({Ctrl(Char("u"))}, Action("MoveUpHalf"))
    /\ Update(Action("MoveUpHalf"), update(Self, Action("MoveUpHalf"), TRUE))
MoveDownHalf ==
    /\ Running /\ Resolves({Ctrl(Char("d"))}, Action("MoveDownHalf"))
    /\ Update(Action("MoveDownHalf"), update(Self, Action("MoveDownHalf"), TRUE))
MoveTop ==
    /\ Running /\ Resolves({Press("g"), PressKey("Home")}, Action("MoveTop"))
    /\ Update(Action("MoveTop"), update(Self, Action("MoveTop"), TRUE))
MoveBottom ==
    /\ Running /\ Resolves({Shift(Char("G")), PressKey("End")}, Action("MoveBottom"))
    /\ Update(Action("MoveBottom"), update(Self, Action("MoveBottom"), TRUE))
AddTodoAbove ==
    /\ Running /\ Resolves({Shift(Char("O"))}, Action("AddTodoAbove"))
    /\ Update(Action("AddTodoAbove"), update(Self, Action("AddTodoAbove"), TRUE))
AddTodoBelow ==
    /\ Running /\ Resolves({Press("o")}, Action("AddTodoBelow"))
    /\ Update(Action("AddTodoBelow"), update(Self, Action("AddTodoBelow"), TRUE))
ToggleMark ==
    /\ Running /\ Resolves({Press("m")}, Action("ToggleMark"))
    /\ Update(Action("ToggleMark"), update(Self, Action("ToggleMark"), TRUE))
Input ==
    /\ Running
    /\ \E code \in InputCodes :
          /\ Resolves({KeyEvent(code, {})}, Action_Input(code)) /\ NameFits(code)
          /\ Update(Action_Input(code), update(Self, Action_Input(code), TRUE))
MoveCursorRight ==
    /\ Running /\ Resolves({PressKey("Right")}, Action("MoveCursorRight"))
    /\ Update(Action("MoveCursorRight"), update(Self, Action("MoveCursorRight"), TRUE))
MoveCursorLeft ==
    /\ Running /\ Resolves({PressKey("Left")}, Action("MoveCursorLeft"))
    /\ Update(Action("MoveCursorLeft"), update(Self, Action("MoveCursorLeft"), TRUE))
MoveCursorStart ==
    /\ Running /\ Resolves({PressKey("Home")}, Action("MoveCursorStart"))
    /\ Update(Action("MoveCursorStart"), update(Self, Action("MoveCursorStart"), TRUE))
MoveCursorEnd ==
    /\ Running /\ Resolves({PressKey("End")}, Action("MoveCursorEnd"))
    /\ Update(Action("MoveCursorEnd"), update(Self, Action("MoveCursorEnd"), TRUE))
Undo ==
    /\ Running /\ Resolves({Press("u")}, Action("Undo"))
    /\ Update(Action("Undo"), update(Self, Action("Undo"), TRUE))
Redo ==
    /\ Running /\ Resolves({Press("r")}, Action("Redo"))
    /\ Update(Action("Redo"), update(Self, Action("Redo"), TRUE))
Nop ==
    /\ Running /\ Resolves({ResizeEvent}, Action("Nop"))
    /\ Update(Action("Nop"), update(Self, Action("Nop"), TRUE))

Next ==
    \/ Quit \/ DeleteTodo \/ MoveTodoLeft \/ MoveTodoRight \/ MoveTodoUp \/ MoveTodoDown
    \/ SetModeInsert \/ SetModeNormal
    \/ MoveLeft \/ MoveRight \/ MoveUp \/ MoveDown \/ MoveUpHalf \/ MoveDownHalf
    \/ MoveTop \/ MoveBottom
    \/ AddTodoAbove \/ AddTodoBelow \/ ToggleMark \/ Input
    \/ MoveCursorRight \/ MoveCursorLeft \/ MoveCursorStart \/ MoveCursorEnd
    \/ Undo \/ Redo \/ Nop

Spec == Init /\ [][Next]_vars

----------------------------------------------------------------------------
(* Properties.  They are stated on the state after an action, with prev    *)
(* the App before it and action the Action that update applied.            *)

Acted(t) == action.t = t
Added == Acted("AddTodoAbove") \/ Acted("AddTodoBelow")
EscEvent == PressKey("Esc")

\* the todo selected_todo designates in app (there must be one)
selected_of(app) ==
    todos_of(app, selected_todo(app)[1][1])[selected_todo(app)[1][2] + 1]

\* C1: in every reachable state the history cursor is within the history:
\* 0 <= current_snapshot <= snapshots.len().
C1_CursorInRange ==
    0 <= current_snapshot /\ current_snapshot <= Len(snapshots)

\* C2: an Undo that had a snapshot to go back to, followed by Redo, restores
\* the lists as they were before the Undo; a Redo that had a snapshot to
\* go forward to, followed by Undo, restores the lists as before the Redo.
C2_UndoRedoRoundTrip ==
    /\ (Acted("Undo") /\ prev.current_snapshot > 0) =>
          /\ halt = "none"
          /\ redo(Self).halt = "none"
          /\ redo(Self).todo_lists = prev.todo_lists
    /\ (Acted("Redo") /\ prev.current_snapshot < Len(prev.snapshots)) =>
          /\ halt = "none"
          /\ undo(Self).halt = "none"
          /\ undo(Self).todo_lists = prev.todo_lists

\* C3: AddTodoAbove/AddTodoBelow on a non-empty list sequence inserts exactly
\* one empty todo into the active list, selects it, and leaves the App in
\* Insert mode with character offset 0, also when the active list was empty.
C3_AddTodoEntersInsert ==
    (Added /\ Len(prev.todo_lists) > 0) =>
        LET li == prev.selection.todo_list
        IN  /\ selection.todo_list = li
            /\ selection.todo < Len(todos_of(Self, li))
            /\ todos_of(Self, li)[selection.todo + 1] = Todo_new(<<>>)
            /\ set_todos(Self, li, VecRemove(todos_of(Self, li), selection.todo)).todo_lists
                  = prev.todo_lists
            /\ mode = "Insert"
            /\ selection.char = 0

\* C4: after AddTodoAbove/AddTodoBelow, pressing Escape with nothing typed
\* discards the new todo: the lists are as before the add and the mode is
\* Normal.
C4_AddThenEscapeDiscards ==
    Added =>
        /\ press(Self, EscEvent, TRUE).todo_lists = prev.todo_lists
        /\ press(Self, EscEvent, TRUE).mode = "Normal"

\* C5: DeleteTodo on a marked todo of the backlog list (index 1) removes it:
\* the backlog list is as before without that todo, the other lists unchanged.
C5_DeleteMarkedInBacklog ==
    (/\ Acted("DeleteTodo")
     /\ selected_todo(prev) # None
     /\ selected_todo(prev)[1][1] = BACKLOG_LIST_IDX
     /\ selected_of(prev).marked) =>
        todo_lists = set_todos(prev, BACKLOG_LIST_IDX,
                               VecRemove(todos_of(prev, BACKLOG_LIST_IDX),
                                         selected_todo(prev)[1][2])).todo_lists

\* C6: DeleteTodo on the selected todo of a list other than the backlog list
\* removes it from its list; an unmarked todo is gone, a marked one becomes
\* the last todo of the list at index 1, unchanged; all other todos keep
\* their places.
C6_DeleteOutsideBacklog ==
    (/\ Acted("DeleteTodo")
     /\ selected_todo(prev) # None
     /\ selected_todo(prev)[1][1] # BACKLOG_LIST_IDX) =>
        LET li == selected_todo(prev)[1][1]
            ti == selected_todo(prev)[1][2]
            removed == set_todos(prev, li, VecRemove(todos_of(prev, li), ti))
        IN  /\ halt = "none"
            /\ IF selected_of(prev).marked
               THEN /\ BACKLOG_LIST_IDX < Len(todo_lists)
                    /\ todo_lists =
                         set_todos(removed, BACKLOG_LIST_IDX,
                                   Append(todos_of(removed, BACKLOG_LIST_IDX),
                                          selected_of(prev))).todo_lists
               ELSE todo_lists = removed.todo_lists

\* C7: in every reachable state, if the selected list has a todo then the
\* stored selection.todo is less than the number of its todos.
C7_SelectedTodoInRange ==
    (/\ selection.todo_list < Len(todo_lists)
     /\ Len(todos_of(Self, selection.todo_list)) > 0) =>
        selection.todo < Len(todos_of(Self, selection.todo_list))

\* The precondition of act fails in app: there is nothing to act on, or the
\* boundary the action moves towards is already reached.
PreconditionFails(app, act) ==
    LET sel == selected_todo(app)
    IN  \/ /\ act.t \in {"MoveTodoUp", "MoveTodoDown", "MoveTodoLeft", "MoveTodoRight",
                         "ToggleMark", "DeleteTodo", "MoveUp", "MoveDown",
                         "MoveUpHalf", "MoveDownHalf", "MoveTop", "MoveBottom", "Input"}
           /\ sel = None
        \/ act = Action_SetMode("Insert") /\ sel = None
        \/ /\ act.t \in {"AddTodoAbove", "AddTodoBelow", "MoveLeft", "MoveRight"}
           /\ Len(app.todo_lists) = 0
        \/ /\ sel # None
           /\ \/ act.t \in {"MoveTodoUp", "MoveUp"} /\ sel[1][2] = 0
              \/ /\ act.t \in {"MoveTodoDown", "MoveDown"}
                 /\ sel[1][2] = Len(todos_of(app, sel[1][1])) - 1
              \/ act.t = "MoveTodoLeft" /\ sel[1][1] = 0
              \/ act.t = "MoveTodoRight" /\ sel[1][1] = Len(app.todo_lists) - 1
        \/ /\ Len(app.todo_lists) > 0
           /\ \/ act.t = "MoveLeft" /\ app.selection.todo_list = 0
              \/ act.t = "MoveRight" /\ app.selection.todo_list = Len(app.todo_lists) - 1

\* C8: an action whose precondition fails is a silent no-op: it ends without
\* error and leaves lists, selection, mode, snapshots, current_snapshot and
\* needs_saving as they were.
C8_FailedPreconditionIsNoOp ==
    PreconditionFails(prev, action) => (halt = "none" /\ Self = prev)

\* C9: after every change of the lists completed between two Normal-mode
\* states (other than by Undo/Redo) the snapshot of the lists before the
\* change is retained: an Undo now restores exactly those lists.
C9_ChangeIsUndoable ==
    (/\ mode = "Normal" /\ halt = "none"
     /\ ~ Acted("Undo") /\ ~ Acted("Redo")
     /\ todo_lists # base_lists) =>
        /\ current_snapshot > 0
        /\ undo(Self).halt = "none"
        /\ undo(Self).todo_lists = base_lists

\* the last action called create_snapshot: of the actions below only that
\* call changes the history
SnapshotTaken ==
    /\ \/ action.t \in {"AddTodoAbove", "AddTodoBelow", "ToggleMark", "DeleteTodo",
                         "MoveTodoLeft", "MoveTodoRight", "MoveTodoUp", "MoveTodoDown"}
       \/ action = Action_SetMode("Insert")
    /\ <<snapshots, current_snapshot>> # <<prev.snapshots, prev.current_snapshot>>

\* C10: create_snapshot called while current_snapshot < snapshots.len() drops
\* every snapshot at index >= current_snapshot before it appends: afterwards
\* the history is the kept prefix followed by the new snapshot,
\* current_snapshot = snapshots.len(), and Redo does nothing.
C10_SnapshotDropsRedoBranch ==
    (SnapshotTaken /\ prev.current_snapshot < Len(prev.snapshots)) =>
        /\ snapshots = Append(SubSeq(prev.snapshots, 1, prev.current_snapshot),
                              State_create(prev))
        /\ current_snapshot = Len(snapshots)
        /\ redo(Self) = Self

\* C10 witness: a ToggleMark took a snapshot while a redo branch existed
C10_Witness ==
    /\ Acted("ToggleMark")
    /\ SnapshotTaken
    /\ prev.current_snapshot < Len(prev.snapshots)
    /\ halt = "none"

\* C11: the history never holds more than max_snapshots snapshots; a
\* create_snapshot on a full history (no redo branch to drop) removes exactly
\* the oldest snapshot, the others keep their order followed by the new one,
\* and current_snapshot ends one below its value after the push, that is at
\* its value before the call.
C11_HistoryBounded ==
    /\ Len(snapshots) <= max_snapshots
    /\ (/\ SnapshotTaken
        /\ prev.current_snapshot >= Len(prev.snapshots)
        /\ Len(prev.snapshots) = max_snapshots) =>
          /\ snapshots = Append(Tail(prev.snapshots), State_create(prev))
          /\ current_snapshot = (prev.current_snapshot + 1) - 1

\* C11 witness: a ToggleMark pushed a snapshot onto a full history
C11_Witness ==
    /\ Acted("ToggleMark")
    /\ SnapshotTaken
    /\ Len(prev.snapshots) = max_snapshots
    /\ prev.current_snapshot = Len(prev.snapshots)
    /\ halt = "none"

\* C12: Undo with current_snapshot = 0 and Redo with current_snapshot =
\* snapshots.len() leave the whole App as it was; any other Undo ends with
\* current_snapshot one lower, any other Redo with current_snapshot one
\* higher, both without error, with as many snapshots as before and with
\* needs_saving set.
C12_UndoRedoFrame ==
    /\ (Acted("Undo") /\ prev.current_snapshot = 0) => Self = prev
    /\ (Acted("Redo") /\ prev.current_snapshot = Len(prev.snapshots)) => Self = prev
    /\ (Acted("Undo") /\ prev.current_snapshot # 0) =>
          /\ halt = "none"
          /\ current_snapshot = prev.current_snapshot - 1
          /\ Len(snapshots) = Len(prev.snapshots)
          /\ needs_saving
    /\ (Acted("Redo") /\ prev.current_snapshot # Len(prev.snapshots)) =>
          /\ halt = "none"
          /\ current_snapshot = prev.current_snapshot + 1
          /\ Len(snapshots) = Len(prev.snapshots)
          /\ needs_saving

\* C13: after any sequence of push, insert, remove and select_* calls on a
\* SelectionList the selected index is None exactly when the list is empty,
\* and otherwise an index of the list: 0 <= selected_index < len.
C13_SelectedIndexValid ==
    IF Len(elements) = 0
    THEN selected_index = None
    ELSE /\ selected_index # None
         /\ 0 <= selected_index[1]
         /\ selected_index[1] <= Len(elements) - 1

\* C13 witness: the last element was selected and an element was removed, so
\* that the selected index had to follow the list
C13_Witness ==
    /\ call.op = "remove"
    /\ ~ call.panic
    /\ Len(elements) > 0
    /\ call.before.selected_index = Some(Len(call.before.elements) - 1)
    /\ selected_index = Some(Len(elements) - 1)

\* C14: on a non-empty SelectionList, for every amount k,
\* select_backwards_wrapping(k) followed by select_forwards_wrapping(k), and
\* the two in the opposite order, end without panic on the selected index
\* they started from, and the selected index in between is an index of the
\* list.
C14_WrappingRoundTrip ==
    Len(elements) > 0 =>
        \A k \in usize :
            LET back == select_backwards_wrapping(List, k, overflow_checks)
                back_forth == select_forwards_wrapping(back, k, overflow_checks)
                forth == select_forwards_wrapping(List, k, overflow_checks)
                forth_back == select_backwards_wrapping(forth, k, overflow_checks)
                InList(sl) == /\ ~ sl.panic
                              /\ sl.selected_index # None
                              /\ sl.selected_index[1] \in 0..(Len(elements) - 1)
            IN  /\ InList(back) /\ InList(back_forth)
                /\ back_forth.selected_index = selected_index
                /\ InList(forth) /\ InList(forth_back)
                /\ forth_back.selected_index = selected_index

\* C15: MoveTodoLeft/MoveTodoRight on a selected todo with a list on that
\* side takes the todo out of its list and puts it into the adjacent list at
\* the index it had, or at the end of that list if it is shorter; the other
\* todos keep their order (so nothing is lost or duplicated), and afterwards
\* selected_todo designates the moved todo in the adjacent list.
C15_MoveTodoAcross ==
    (/\ Acted("MoveTodoLeft") \/ Acted("MoveTodoRight")
     /\ selected_todo(prev) # None
     /\ Acted("MoveTodoLeft") => selected_todo(prev)[1][1] > 0
     /\ Acted("MoveTodoRight") => selected_todo(prev)[1][1] < Len(prev.todo_lists) - 1) =>
        LET li == selected_todo(prev)[1][1]
            ti == selected_todo(prev)[1][2]
            lj == IF Acted("MoveTodoLeft") THEN li - 1 ELSE li + 1
            tj == Min(ti, Len(todos_of(prev, lj)))
            removed == set_todos(prev, li, VecRemove(todos_of(prev, li), ti))
            moved == set_todos(removed, lj, VecInsert(todos_of(removed, lj), tj, selected_of(prev)))
        IN  /\ halt = "none"
            /\ todo_lists = moved.todo_lists
            /\ selected_todo(Self) = Some(<<lj, tj>>)

\* C16: in the current mode, a key press of an uppercase ASCII letter is
\* resolved by read_next_action to the same Action whether the terminal
\* reports it with the SHIFT modifier or with no modifier (and the same with
\* CONTROL held in both).
C16_ShiftImplied ==
    \A c \in Uppercase : \A mods \in SUBSET {"CONTROL"} :
        read_next_action(mode, KeyEvent(Char(c), mods))
            = read_next_action(mode, KeyEvent(Char(c), mods \cup {"SHIFT"}))

C18_FailedSaveKeepsState ==
    (Acted("Quit") /\ halt = "error") =>
        /\ todo_lists = prev.todo_lists
        /\ selection = prev.selection
        /\ mode = prev.mode
        /\ snapshots = prev.snapshots
        /\ current_snapshot = prev.current_snapshot
        /\ needs_saving

\* C18 witness: a Quit after a change of the lists, whose save failed
C18_Witness ==
    /\ Acted("Quit") /\ halt = "error"
    /\ prev.needs_saving
    /\ todo_lists # loaded

\* C19: in every reachable state Insert mode implies that the active list
\* exists and has a todo; in particular SetMode(Insert) with nothing
\* selected (empty active list) leaves the mode Normal.
C19_InsertHasTodo ==
    /\ mode = "Insert" =>
          /\ selection.todo_list < Len(todo_lists)
          /\ Len(todos_of(Self, selection.todo_list)) > 0
    /\ (action = Action_SetMode("Insert") /\ selected_todo(prev) = None) => mode = "Normal"

\* C19 witness: SetMode(Insert) was rejected on an empty active list
C19_Witness ==
    /\ action = Action_SetMode("Insert")
    /\ Len(prev.todo_lists) > 0
    /\ Len(todos_of(prev, prev.selection.todo_list)) = 0
    /\ mode = "Normal" /\ halt = "none"

\* C20: Undo and Redo change the lists only: after either, the mode and the
\* stored selection (todo_list, todo, char) are as they were before it.
C20_UndoRedoKeepSelection ==
    (Acted("Undo") \/ Acted("Redo")) =>
        /\ mode = prev.mode
        /\ selection = prev.selection

\* C20 witness: an Undo restored other lists while a todo other than the
\* first was selected
C20_Witness ==
    /\ Acted("Undo") /\ halt = "none"
    /\ todo_lists # prev.todo_lists
    /\ selection.todo > 0

\* the actions that only move the selection or the character offset
Navigation ==
    {"MoveLeft", "MoveRight", "MoveUp", "MoveDown", "MoveUpHalf", "MoveDownHalf",
     "MoveTop", "MoveBottom", "MoveCursorLeft", "MoveCursorRight",
     "MoveCursorStart", "MoveCursorEnd", "Nop"}

\* C21: a navigation action (MoveLeft/Right/Up/Down, MoveUpHalf/DownHalf,
\* MoveTop/Bottom, MoveCursorLeft/Right/Start/End, Nop) leaves the lists, the
\* snapshots, current_snapshot and needs_saving as they were.
C21_NavigationFrame ==
    action.t \in Navigation =>
        /\ todo_lists = prev.todo_lists
        /\ snapshots = prev.snapshots
        /\ current_snapshot = prev.current_snapshot
        /\ needs_saving = prev.needs_saving

\* C21 witness: MoveDown moved the selection while the history held a
\* snapshot and the document was dirty
C21_Witness ==
    /\ Acted("MoveDown") /\ halt = "none"
    /\ selection.todo = prev.selection.todo + 1
    /\ Len(snapshots) > 0
    /\ needs_saving

\* C22: an Input in Insert mode edits only the name of the todo being edited
\* and the character offset, without error: a char is inserted at the offset
\* and the offset grows by one; Backspace at offset 0 and Delete at the end
\* of the name change neither; Backspace at an offset > 0 removes the char
\* before the offset and the offset shrinks by one; Delete before the end
\* removes the char at the offset and keeps the offset; other keys change
\* neither.  Every other todo, and the rest of the selection, is as before.
C22_TextEditing ==
    (Acted("Input") /\ prev.mode = "Insert" /\ selected_todo(prev) # None) =>
        LET li == selected_todo(prev)[1][1]
            ti == selected_todo(prev)[1][2]
            name == selected_of(prev).name
            offset == prev.selection.char
            code == action.code
            edited ==
                IF code.t = "Char" THEN String_insert(name, offset, code.c)
                ELSE IF code.t = "Backspace" /\ offset > 0 THEN String_remove(name, offset - 1)
                ELSE IF code.t = "Delete" /\ offset < Len(name) THEN String_remove(name, offset)
                ELSE name
            moved ==
                IF code.t = "Char" THEN offset + 1
                ELSE IF code.t = "Backspace" /\ offset > 0 THEN offset - 1
                ELSE offset
        IN  /\ halt = "none"
            /\ todo_lists = [prev.todo_lists EXCEPT ![li + 1].todos[ti + 1].name = edited]
            /\ selection = [prev.selection EXCEPT !.char = moved]

\* C23: MoveTodoUp on a selected todo that is not the first of its list, and
\* MoveTodoDown on one that is not the last, swaps it with its neighbour on
\* that side; every other todo and list is as before, and afterwards the
\* stored selection is the same list and the new index of the moved todo.
C23_MoveTodoWithinList ==
    (/\ Acted("MoveTodoUp") \/ Acted("MoveTodoDown")
     /\ selected_todo(prev) # None
     /\ Acted("MoveTodoUp") => selected_todo(prev)[1][2] > 0
     /\ Acted("MoveTodoDown") =>
           selected_todo(prev)[1][2] < Len(todos_of(prev, selected_todo(prev)[1][1])) - 1) =>
        LET li == selected_todo(prev)[1][1]
            ti == selected_todo(prev)[1][2]
            tj == IF Acted("MoveTodoUp") THEN ti - 1 ELSE ti + 1
            before == todos_of(prev, li)
            after == [k \in 1..Len(before) |->
                         IF k = ti + 1 THEN before[tj + 1]
                         ELSE IF k = tj + 1 THEN before[ti + 1]
                         ELSE before[k]]
        IN  /\ halt = "none"
            /\ todo_lists = [prev.todo_lists EXCEPT ![li + 1].todos = after]
            /\ selection.todo_list = li
            /\ selection.todo = tj
            /\ todos_of(Self, li)[selection.todo + 1] = selected_of(prev)

\* C23 witness: a MoveTodoUp exchanged two different todos
C23_Witness ==
    /\ Acted("MoveTodoUp") /\ halt = "none"
    /\ selected_todo(prev) # None
    /\ selected_todo(prev)[1][2] > 0
    /\ todo_lists # prev.todo_lists

C25_EscapeKeepsSelection ==
    (/\ action = Action_SetMode("Normal")
     /\ selected_todo(prev) # None
     /\ ~ trim_is_empty(selected_of(prev).name)) =>
        /\ halt = "none"
        /\ mode = "Normal"
        /\ todo_lists = prev.todo_lists
        /\ selection.todo = prev.selection.todo
        /\ selected_todo(Self) = selected_todo(prev)

\* C26: in every reachable Insert-mode state the item index that
\* move_cursor_right and move_cursor_end read (the stored selection.todo) is
\* an index of the active list, so that MoveCursorRight and MoveCursorEnd
\* applied to the state do not index past its end.
C26_CursorMovesInBounds ==
    (mode = "Insert" /\ halt = "none") =>
        /\ selection.todo_list < Len(todo_lists)
        /\ selection.todo < Len(todos_of(Self, selection.todo_list))
        /\ move_cursor_right(Self).halt = "none"
        /\ move_cursor_end(Self).halt = "none"

\* C27: with a todo treated as selected (at the stored item index clamped to
\* the last index of the active list), AddTodoAbove inserts the new empty
\* todo at that todo's position, shifting it down by one, and AddTodoBelow
\* inserts it right after that todo; the other todos and lists are as
\* before.  This includes a stored item index past the end of the list.
C27_AddTodoPosition ==
    (Added /\ selected_todo(prev) # None) =>
        LET li == selected_todo(prev)[1][1]
            ti == selected_todo(prev)[1][2]
            at == IF Acted("AddTodoAbove") THEN ti ELSE ti + 1
        IN  /\ halt = "none"
            /\ todo_lists =
                  set_todos(prev, li, VecInsert(todos_of(prev, li), at, Todo_new(<<>>))).todo_lists

\* C28: in every reachable state of a run that has not saved (Quit has not
\* succeeded), if the lists differ from the lists loaded at startup then
\* needs_saving is set.
C28_ChangesAreDirty ==
    (~ quit /\ todo_lists # loaded) => needs_saving
====
